---- MODULE Spec2Model ----
(***************************************************************************)
(* rust-url: the application/x-www-form-urlencoded codec                   *)
(* (src/src/form_urlencoded.rs), the file-path conversions and the         *)
(* url_parsing conformance harness exercised by src/src/tests.rs.          *)
(*                                                                         *)
(* Byte strings are sequences of integers 0..255.  A Rust String is        *)
(* modelled as the sequence of its Unicode code points, so that turning    *)
(* text into bytes (utf8_encode) and bytes into text (decode) are real     *)
(* conversions.                                                            *)
(***************************************************************************)
EXTENDS Integers, Sequences, FiniteSets, TLC

VARIABLES
    api,                \* form: entry point called, "parse" or "parse_with_encoding"
    src_pairs,          \* form: the pairs handed to serialize_owned (round trip only)
    input,              \* form: the bytes handed to parse_internal
    enc0,               \* form: the encoding_override argument as passed in
    use0,               \* form: the use_charset argument as passed in
    encoding_override,  \* form: parse_internal's `mut encoding_override`
    use_charset,        \* form: parse_internal's `mut use_charset`
    pieces,             \* form: what is left of the iterator input.split('&')
    pairs,              \* form: parse_internal's `pairs` vector (raw bytes)
    looked_up,          \* form: the calls made to EncodingOverride::lookup so far
    pc,                 \* form: position in the call
    result,             \* form: the Option returned by parse_internal
    panicked,           \* form: parse()'s unwrap hit None
    fp_flavor,          \* file paths: the native path flavor asked of to_file_path
    fp_path,            \* file paths: the Url's path segments (url.path_mut())
    fp_edited,          \* file paths: a segment has been assigned since construction
    fp_initial,         \* file paths: what to_file_path gave before any assignment
    fp_result,          \* file paths: what to_file_path gave for the current path
    h_fixture,          \* harness: the lines of urltestdata.txt, split into pieces
    h_tests,            \* harness: the Vec<Test> built by parse_test_data
    h_i,                \* harness: index of the next test of the for loop
    h_pc,               \* harness: position in url_parsing
    h_last              \* harness: the test last run, its parse outcome and what became of it

form_vars == <<api, src_pairs, input, enc0, use0, encoding_override, use_charset,
               pieces, pairs, looked_up, pc, result, panicked>>

file_vars == <<fp_flavor, fp_path, fp_edited, fp_initial, fp_result>>

harness_vars == <<h_fixture, h_tests, h_i, h_pc, h_last>>

vars == <<form_vars, file_vars, harness_vars>>

----------------------------------------------------------------------------
(* Bounds of the model. *)

\* longest input of the decode specification, in '&'-separated pieces
MaxPieces == 3
\* longest pair list of the round-trip specification
MaxPairs == 3

----------------------------------------------------------------------------
(* Bytes the code names. *)

AMP == 38
EQUALS == 61
PLUS == 43
SPACE == 32
PERCENT == 37
REPLACEMENT_CHARACTER == 65533

UTF8 == "utf-8"
WINDOWS_1252 == "windows-1252"
NoEncoding == "none"

\* b"_charset_"
CHARSET_NAME == <<95, 99, 104, 97, 114, 115, 101, 116, 95>>

----------------------------------------------------------------------------
(* Generic sequence helpers. *)

RECURSIVE Flatten(_)
Flatten(ss) == IF ss = <<>> THEN <<>> ELSE Head(ss) \o Flatten(Tail(ss))

RECURSIVE Join(_, _)
Join(ss, sep) ==
    IF ss = <<>> THEN <<>>
    ELSE IF Len(ss) = 1 THEN ss[1]
    ELSE ss[1] \o <<sep>> \o Join(Tail(ss), sep)

SeqsUpTo(S, n) == UNION { [1..k -> S] : k \in 0..n }

----------------------------------------------------------------------------
(* percent_encoding: percent_decode, percent_encode_to and the             *)
(* FORM_URLENCODED_ENCODE_SET.                                             *)

IsAsciiAlnum(b) == b \in 48..57 \/ b \in 65..90 \/ b \in 97..122

\* '*' '-' '.' '_' and the ASCII alphanumerics are the bytes left alone
InFormUrlencodedEncodeSet(b) == ~(IsAsciiAlnum(b) \/ b \in {42, 45, 46, 95})

IsHexDigit(b) == b \in 48..57 \/ b \in 65..70 \/ b \in 97..102

from_hex(b) ==
    IF b \in 48..57 THEN b - 48
    ELSE IF b \in 65..70 THEN b - 55
    ELSE b - 87

to_hex_upper(n) == IF n < 10 THEN 48 + n ELSE 55 + n

percent_encode_byte(b) == <<PERCENT, to_hex_upper(b \div 16), to_hex_upper(b % 16)>>

percent_encode_to(b) ==
    IF InFormUrlencodedEncodeSet(b) THEN percent_encode_byte(b) ELSE <<b>>

RECURSIVE percent_decode(_)
percent_decode(bytes) ==
    IF bytes = <<>> THEN <<>>
    ELSE IF /\ bytes[1] = PERCENT
            /\ Len(bytes) >= 3
            /\ IsHexDigit(bytes[2])
            /\ IsHexDigit(bytes[3])
         THEN <<from_hex(bytes[2]) * 16 + from_hex(bytes[3])>>
                  \o percent_decode(SubSeq(bytes, 4, Len(bytes)))
         ELSE <<bytes[1]>> \o percent_decode(Tail(bytes))

----------------------------------------------------------------------------
(* encoding: EncodingOverride (utf8, lookup, is_utf8, decode, encode).     *)

IsCont(b) == b \in 128..191

\* the code point a well-formed UTF-8 sequence starts bytes with, as
\* <<code point, length>>; length 0 when bytes starts with no such sequence
utf8_first(bytes) ==
    LET n == Len(bytes)
        b1 == bytes[1]
    IN  IF b1 < 128 THEN <<b1, 1>>
        ELSE IF b1 \in 194..223 /\ n >= 2 /\ IsCont(bytes[2])
             THEN <<(b1 - 192) * 64 + (bytes[2] - 128), 2>>
        ELSE IF /\ b1 \in 224..239 /\ n >= 3
                /\ IsCont(bytes[2]) /\ IsCont(bytes[3])
                /\ (b1 = 224 => bytes[2] >= 160)
                /\ (b1 = 237 => bytes[2] <= 159)
             THEN <<(b1 - 224) * 4096 + (bytes[2] - 128) * 64 + (bytes[3] - 128), 3>>
        ELSE IF /\ b1 \in 240..244 /\ n >= 4
                /\ IsCont(bytes[2]) /\ IsCont(bytes[3]) /\ IsCont(bytes[4])
                /\ (b1 = 240 => bytes[2] >= 144)
                /\ (b1 = 244 => bytes[2] <= 143)
             THEN <<(b1 - 240) * 262144 + (bytes[2] - 128) * 4096
                        + (bytes[3] - 128) * 64 + (bytes[4] - 128), 4>>
        ELSE <<REPLACEMENT_CHARACTER, 0>>

\* lossy UTF-8 decoding: a byte that starts no well-formed sequence becomes
\* U+FFFD
RECURSIVE utf8_decode_lossy(_)
utf8_decode_lossy(bytes) ==
    IF bytes = <<>> THEN <<>>
    ELSE LET f == utf8_first(bytes)
         IN  IF f[2] = 0
             THEN <<REPLACEMENT_CHARACTER>> \o utf8_decode_lossy(Tail(bytes))
             ELSE <<f[1]>> \o utf8_decode_lossy(SubSeq(bytes, f[2] + 1, Len(bytes)))

utf8_encode_char(c) ==
    IF c < 128 THEN <<c>>
    ELSE IF c < 2048 THEN <<192 + (c \div 64), 128 + (c % 64)>>
    ELSE IF c < 65536
         THEN <<224 + (c \div 4096), 128 + ((c \div 64) % 64), 128 + (c % 64)>>
    ELSE <<240 + (c \div 262144), 128 + ((c \div 4096) % 64),
           128 + ((c \div 64) % 64), 128 + (c % 64)>>

\* String::as_bytes
utf8_encode(text) == Flatten([i \in 1..Len(text) |-> utf8_encode_char(text[i])])

\* the code points of bytes 0x80..0x9F in windows-1252
Windows1252High ==
    <<8364, 129, 8218, 402, 8222, 8230, 8224, 8225, 710, 8240, 352, 8249, 338,
      141, 381, 143, 144, 8216, 8217, 8220, 8221, 8226, 8211, 8212, 732, 8482,
      353, 8250, 339, 157, 382, 376>>

windows1252_decode(bytes) ==
    [i \in 1..Len(bytes) |->
        IF bytes[i] \in 128..159 THEN Windows1252High[bytes[i] - 127] ELSE bytes[i]]

is_utf8(encoding) == encoding = UTF8

decode(encoding, bytes) ==
    IF is_utf8(encoding) THEN utf8_decode_lossy(bytes) ELSE windows1252_decode(bytes)

\* the encoding labels the lookup capability knows: "utf-8", "utf8", "l1"
lookup(label) ==
    IF label = <<117, 116, 102, 45, 56>> \/ label = <<117, 116, 102, 56>> THEN UTF8
    ELSE IF label = <<108, 49>> THEN WINDOWS_1252
    ELSE NoEncoding

----------------------------------------------------------------------------
(* form_urlencoded.rs: parse_internal.                                     *)

\* input.split(|&b| b == b'&')
RECURSIVE split(_, _)
split(bytes, sep) ==
    IF \A i \in 1..Len(bytes) : bytes[i] # sep THEN <<bytes>>
    ELSE LET p == CHOOSE i \in 1..Len(bytes) :
                      bytes[i] = sep /\ \A j \in 1..(i - 1) : bytes[j] # sep
         IN  <<SubSeq(bytes, 1, p - 1)>> \o split(SubSeq(bytes, p + 1, Len(bytes)), sep)

\* piece.position_elem(&b'='): the 1-based index of the first b, 0 for None
position_elem(piece, b) ==
    IF \A i \in 1..Len(piece) : piece[i] # b THEN 0
    ELSE CHOOSE i \in 1..Len(piece) : piece[i] = b /\ \A j \in 1..(i - 1) : piece[j] # b

\* the match on position_elem: <<name, value>>
\* a split on the last '=' instead of the first
name_value_mut(piece) ==
    LET eqs == {i \in 1..Len(piece) : piece[i] = EQUALS}
        position == IF eqs = {} THEN 0 ELSE CHOOSE i \in eqs : \A j \in eqs : j <= i
    IN  IF position # 0
        THEN <<SubSeq(piece, 1, position - 1), SubSeq(piece, position + 1, Len(piece))>>
        ELSE <<piece, <<>>>>

name_value(piece) ==
    LET position == position_elem(piece, EQUALS)
    IN  IF position # 0
        THEN <<SubSeq(piece, 1, position - 1), SubSeq(piece, position + 1, Len(piece))>>
        ELSE <<piece, <<>>>>

\* '+' left as it is
replace_plus_mut(bytes) == bytes

replace_plus(bytes) ==
    [i \in 1..Len(bytes) |-> IF bytes[i] = PLUS THEN SPACE ELSE bytes[i]]

\* the value percent-decoded before the lookup
lookup_label_mut(value) == percent_decode(value)

\* the argument of EncodingOverride::lookup: value.as_slice()
lookup_label(value) == value

is_ascii(bytes) == \A i \in 1..Len(bytes) : bytes[i] < 128

\* a refusal of every encoding but UTF-8, whatever the input
decode_fails_mut(encoding, bytes) == ~is_utf8(encoding)

\* the condition of the early `return None`
decode_fails(encoding, bytes) == ~(is_utf8(encoding) \/ is_ascii(bytes))

None == [some |-> FALSE, pairs |-> <<>>]

Some(ps) == [some |-> TRUE, pairs |-> ps]

\* pairs.into_iter().map(..decode(percent_decode(..))..).collect()
decode_pairs(encoding, ps) ==
    [i \in 1..Len(ps) |->
        <<decode(encoding, percent_decode(ps[i][1])),
          decode(encoding, percent_decode(ps[i][2]))>>]

----------------------------------------------------------------------------
(* form_urlencoded.rs: serialize_owned, serialize, serialize_internal.     *)

\* '+' for space, every other byte written unescaped
byte_serialize_mut(text) ==
    LET bytes == utf8_encode(text)
    IN  [i \in 1..Len(bytes) |-> IF bytes[i] = SPACE THEN PLUS ELSE bytes[i]]

\* byte_serialize under EncodingOverride::utf8(), the encoding serialize passes
byte_serialize(text) ==
    LET bytes == utf8_encode(text)
    IN  Flatten([i \in 1..Len(bytes) |->
                    IF bytes[i] = SPACE THEN <<PLUS>> ELSE percent_encode_to(bytes[i])])

\* '&' before every pair, the first included
RECURSIVE serialize_loop_mut(_, _)
serialize_loop_mut(ps, output) ==
    IF ps = <<>> THEN output
    ELSE serialize_loop_mut(Tail(ps),
            output \o <<AMP>>
                   \o byte_serialize(ps[1][1]) \o <<EQUALS>> \o byte_serialize(ps[1][2]))

serialize_internal_mut(ps) == serialize_loop_mut(ps, <<>>)

\* the for loop of serialize_internal, output being the String built so far
RECURSIVE serialize_loop(_, _)
serialize_loop(ps, output) ==
    IF ps = <<>> THEN output
    ELSE serialize_loop(Tail(ps),
            (IF Len(output) > 0 THEN output \o <<AMP>> ELSE output)
                \o byte_serialize(ps[1][1]) \o <<EQUALS>> \o byte_serialize(ps[1][2]))

serialize_internal(ps) == serialize_loop(ps, <<>>)

serialize(ps) == serialize_internal(ps)

serialize_owned(ps) == serialize(ps)

----------------------------------------------------------------------------
(* Url::to_file_path for the two native path flavors, as exercised by the  *)
(* file_paths test.                                                        *)

NUL == 0
SLASH == 47
BACKSLASH == 92
COLON == 58

NotCalled == [called |-> FALSE, ok |-> FALSE, bytes |-> <<>>]

Ok(bytes) == [called |-> TRUE, ok |-> TRUE, bytes |-> bytes]

Err == [called |-> TRUE, ok |-> FALSE, bytes |-> <<>>]

\* std::str::from_utf8(bytes).is_ok()
RECURSIVE is_utf8_text(_)
is_utf8_text(bytes) ==
    IF bytes = <<>> THEN TRUE
    ELSE LET f == utf8_first(bytes)
         IN  f[2] # 0 /\ is_utf8_text(SubSeq(bytes, f[2] + 1, Len(bytes)))

contains_nul(bytes) == \E i \in 1..Len(bytes) : bytes[i] = NUL

\* the bytes of the native path: every segment percent-decoded after sep
decoded_path(path, sep) ==
    Flatten([i \in 1..Len(path) |-> <<sep>> \o percent_decode(utf8_encode(path[i]))])

\* a conversion that checks the stored segments for NUL, not the decoded ones
path_to_file_path_posix_raw_nul(path) ==
    IF path = <<>> THEN Ok(<<SLASH>>)
    ELSE IF \E i \in 1..Len(path) : contains_nul(utf8_encode(path[i])) THEN Err
    ELSE Ok(decoded_path(path, SLASH))

\* a conversion that turns the decoded bytes into text and back
path_to_file_path_posix_lossy(path) ==
    IF path = <<>> THEN Ok(<<SLASH>>)
    ELSE LET bytes == utf8_encode(utf8_decode_lossy(decoded_path(path, SLASH)))
         IN  IF contains_nul(bytes) THEN Err ELSE Ok(bytes)

\* POSIX: the path backend refuses a byte string that holds NUL
path_to_file_path_posix(path) ==
    IF path = <<>> THEN Ok(<<SLASH>>)
    ELSE LET bytes == decoded_path(path, SLASH)
         IN  IF contains_nul(bytes) THEN Err ELSE Ok(bytes)

is_drive_prefix(segment) ==
    /\ Len(segment) = 2
    /\ (segment[1] \in 65..90 \/ segment[1] \in 97..122)
    /\ segment[2] = COLON

\* Windows: a drive-letter first segment; the path backend refuses a byte
\* string that holds NUL or is not UTF-8 text
path_to_file_path_windows(path) ==
    IF path = <<>> THEN Err
    ELSE IF ~is_drive_prefix(path[1]) THEN Err
    ELSE LET bytes == utf8_encode(path[1]) \o decoded_path(Tail(path), BACKSLASH)
         IN  IF contains_nul(bytes) \/ ~is_utf8_text(bytes) THEN Err ELSE Ok(bytes)

to_file_path(flavor, path) ==
    IF flavor = "posix" THEN path_to_file_path_posix(path)
    ELSE path_to_file_path_windows(path)

\* the Url of Url::from_file_path("/foo/bar") and of r"C:\foo\bar"
PosixUrlPath == << <<102, 111, 111>>, <<98, 97, 114>> >>

WindowsUrlPath == << <<67, 58>>, <<102, 111, 111>>, <<98, 97, 114>> >>

\* the strings assigned to a segment
Segments ==
    { <<102, 111, 111>>,                           \* foo
      <<98, 97, 114>>,                             \* bar
      <<67, 58>>,                                  \* C:
      <<98, 97, 0, 114>>,                          \* ba\0r
      <<98, 97, 37, 48, 48, 114>>,                 \* ba%00r
      <<98, 97, 37, 56, 48, 114>>,                 \* ba%80r
      <<98, 97, 37, 67, 51, 37, 65, 57, 114>>,     \* ba%C3%A9r
      <<233>>                                      \* e-acute, stored unescaped
    }

----------------------------------------------------------------------------
(* tests.rs: the url_parsing harness.  The fixture is the sequence of its  *)
(* lines, a line (and every string of a Test or of a Url) the sequence of  *)
(* its characters' code points.  An operation that can panic gives         *)
(* Panic, one that does not gives Good(value).                             *)

HASH == 35
QUESTION == 63
U16_MAX == 65535

NoneOpt == <<>>

SomeOpt(v) == <<v>>

Good(v) == [panic |-> FALSE, val |-> v]

Panic == [panic |-> TRUE, val |-> <<>>]

\* "XFAIL"
XFAIL == <<88, 70, 65, 73, 76>>

\* piece.find(':'): the 1-based index of the first c, 0 for None
find(piece, c) ==
    IF \A i \in 1..Len(piece) : piece[i] # c THEN 0
    ELSE CHOOSE i \in 1..Len(piece) : piece[i] = c /\ \A j \in 1..(i - 1) : piece[j] # c

starts_with(str, c) == str # <<>> /\ str[1] = c

RECURSIVE hex_value(_, _)
hex_value(str, acc) ==
    IF str = <<>> THEN acc ELSE hex_value(Tail(str), acc * 16 + from_hex(Head(str)))

\* from_str_radix(hex, 16).and_then(char::from_u32) on the four characters
\* after \u: std::num::from_str_radix reads hex digits only (no sign), and
\* char::from_u32 refuses a surrogate; <<>> for None
hex_char(hex) ==
    IF hex = <<>> \/ \E i \in 1..Len(hex) : ~IsHexDigit(hex[i]) THEN NoneOpt
    ELSE IF hex_value(hex, 0) \in 55296..57343 THEN NoneOpt
    ELSE SomeOpt(hex_value(hex, 0))

\* the loop of unescape, from the characters left and the output so far
RECURSIVE unescape_loop(_, _)
unescape_loop(chars, output) ==
    IF chars = <<>> THEN Good(output)
    ELSE IF chars[1] # BACKSLASH
         THEN unescape_loop(Tail(chars), Append(output, chars[1]))
    ELSE IF Len(chars) < 2 THEN Panic
    ELSE LET c == chars[2]
             rest == SubSeq(chars, 3, Len(chars))
         IN  IF c = BACKSLASH THEN unescape_loop(rest, Append(output, BACKSLASH))
             ELSE IF c = 110 THEN unescape_loop(rest, Append(output, 10))
             ELSE IF c = 114 THEN unescape_loop(rest, Append(output, 13))
             ELSE IF c = 115 THEN unescape_loop(rest, Append(output, SPACE))
             ELSE IF c = 116 THEN unescape_loop(rest, Append(output, 9))
             ELSE IF c = 102 THEN unescape_loop(rest, Append(output, 12))
             ELSE IF c = 117
                  THEN IF Len(rest) < 4 THEN Panic
                       ELSE LET ch == hex_char(SubSeq(rest, 1, 4))
                            IN  IF ch = NoneOpt THEN Panic
                                ELSE unescape_loop(SubSeq(rest, 5, Len(rest)),
                                                   Append(output, ch[1]))
             ELSE Panic

unescape(str) == unescape_loop(str, <<>>)

RECURSIVE digits_value(_, _)
digits_value(str, acc) ==
    IF str = <<>> THEN acc ELSE digits_value(Tail(str), acc * 10 + (Head(str) - 48))

\* value.parse::<u16>().unwrap(): decimal digits only (no sign), at least
\* one, and no more than 65535
parse_port(str) ==
    IF str = <<>> \/ \E i \in 1..Len(str) : str[i] \notin 48..57 THEN Panic
    ELSE IF digits_value(str, 0) > U16_MAX THEN Panic
    ELSE Good(digits_value(str, 0))

\* the body of `for piece in pieces` for a piece that is not passed over
set_field(test, piece) ==
    LET colon == find(piece, COLON)
        key == SubSeq(piece, 1, colon - 1)
        value == unescape(SubSeq(piece, colon + 1, Len(piece)))
        port == parse_port(value.val)
    IN  IF colon = 0 \/ value.panic THEN Panic
        ELSE IF key = <<115>> THEN Good([test EXCEPT !.scheme = SomeOpt(value.val)])
        ELSE IF key = <<117>> THEN Good([test EXCEPT !.username = value.val])
        ELSE IF key = <<112, 97, 115, 115>>
             THEN Good([test EXCEPT !.password = SomeOpt(value.val)])
        ELSE IF key = <<104>> THEN Good([test EXCEPT !.host = value.val])
        ELSE IF key = <<112, 111, 114, 116>>
             THEN IF port.panic THEN Panic
                  ELSE Good([test EXCEPT !.port = SomeOpt(port.val)])
        ELSE IF key = <<112>> THEN Good([test EXCEPT !.path = SomeOpt(value.val)])
        ELSE IF key = <<113>> THEN Good([test EXCEPT !.query = SomeOpt(value.val)])
        ELSE IF key = <<102>> THEN Good([test EXCEPT !.fragment = SomeOpt(value.val)])
        ELSE Panic

\* for piece in pieces: empty pieces and comments are passed over
RECURSIVE set_fields(_, _)
set_fields(test, ps) ==
    IF ps = <<>> THEN Good(test)
    ELSE IF Head(ps) = <<>> \/ starts_with(Head(ps), HASH) THEN set_fields(test, Tail(ps))
    ELSE LET next == set_field(test, Head(ps))
         IN  IF next.panic THEN Panic ELSE set_fields(next.val, Tail(ps))

\* the expected_failure of a line: pieces[0] == "XFAIL"
is_xfail(ps) == ps[1] = XFAIL

\* the body of `for line in input.lines()` for a line that is a test
parse_line(line, tests) ==
    LET ps == split(line, SPACE)
        expected_failure == is_xfail(ps)
        p1 == IF expected_failure THEN Tail(ps) ELSE ps
        p2 == Tail(p1)
        inherit == p2 = <<>> \/ p2[1] = <<>>
        p3 == IF inherit THEN p2 ELSE Tail(p2)
        inp == unescape(Head(p1))
        base == IF inherit THEN Good(tests[Len(tests)].base) ELSE unescape(p2[1])
    IN  IF p1 = <<>> THEN Panic
        ELSE IF inp.panic THEN Panic
        ELSE IF inherit /\ tests = <<>> THEN Panic
        ELSE IF base.panic THEN Panic
        ELSE set_fields([input |-> inp.val,
                         base |-> base.val,
                         scheme |-> NoneOpt,
                         username |-> <<>>,
                         password |-> NoneOpt,
                         host |-> <<>>,
                         port |-> NoneOpt,
                         path |-> NoneOpt,
                         query |-> NoneOpt,
                         fragment |-> NoneOpt,
                         expected_failure |-> expected_failure],
                        p3)

RECURSIVE parse_lines(_, _)
parse_lines(lines, tests) ==
    IF lines = <<>> THEN Good(tests)
    ELSE IF Head(lines) = <<>> \/ starts_with(Head(lines), HASH)
         THEN parse_lines(Tail(lines), tests)
    ELSE LET test == parse_line(Head(lines), tests)
         IN  IF test.panic THEN Panic
             ELSE parse_lines(Tail(lines), Append(tests, test.val))

parse_test_data(lines) == parse_lines(lines, <<>>)

\* format!("/{}", path.connect("/"))
path_string(path) == <<SLASH>> \o Join(path, SLASH)

\* opt_prepend
opt_prepend(prefix, opt_s) ==
    IF opt_s = NoneOpt THEN NoneOpt ELSE SomeOpt(<<prefix>> \o opt_s[1])

\* the assert_eq! calls of the loop body in order, as <<actual, expected>>;
\* the port comparison is kept apart, its values being numbers
comparisons(test, url) ==
    << <<SomeOpt(url.scheme), test.scheme>> >>
    \o (IF url.relative
        THEN << <<url.username, test.username>>,
                <<url.password, test.password>>,
                <<url.host, test.host>>,
                <<SomeOpt(path_string(url.path)), test.path>> >>
        ELSE << <<SomeOpt(url.data), test.path>>,
                <<(<<>>), test.username>>,
                <<NoneOpt, test.password>>,
                <<(<<>>), test.host>> >>)
    \o << <<opt_prepend(QUESTION, url.query), test.query>>,
          <<opt_prepend(HASH, url.fragment), test.fragment>> >>

port_differs(test, url) ==
    (IF url.relative THEN url.port ELSE NoneOpt) # test.port

\* one iteration of the for loop of url_parsing: what becomes of the test
run_test(test, base_ok, url) ==
    LET expected_failure == test.expected_failure
        cmp == comparisons(test, url)
    IN  IF ~base_ok THEN "panic: Error parsing base"
        ELSE IF test.scheme = NoneOpt
             THEN IF url.ok /\ ~expected_failure
                  THEN "panic: Expected a parse error"
                  ELSE "continue: no scheme expected"
        ELSE IF ~url.ok
             THEN IF expected_failure
                  THEN "continue: parse error"
                  ELSE "panic: Error parsing URL"
        ELSE IF port_differs(test, url) \/ \E i \in 1..Len(cmp) : cmp[i][1] # cmp[i][2]
             THEN IF expected_failure
                  THEN "continue: mismatch"
                  ELSE "panic: a != b"
        ELSE IF expected_failure THEN "panic: Unexpected success"
        ELSE "end of loop body"

is_panic(verdict) ==
    verdict \in {"panic: Error parsing base", "panic: Expected a parse error",
                 "panic: Error parsing URL", "panic: a != b",
                 "panic: Unexpected success"}

\* the outcome of UrlParser::new().base_url(&base).parse(input)
ParseError ==
    [ok |-> FALSE, scheme |-> <<>>, relative |-> FALSE, username |-> <<>>,
     password |-> NoneOpt, host |-> <<>>, port |-> NoneOpt, path |-> <<>>,
     data |-> <<>>, query |-> NoneOpt, fragment |-> NoneOpt]

\* scheme "http"; username "u", password "pw", host "h", port 80,
\* path ["p"], query "q", fragment "A " or none of them
RelativeUrls ==
    [ok : {TRUE}, scheme : {<<104, 116, 116, 112>>}, relative : {TRUE},
     username : {<<>>, <<117>>}, password : {NoneOpt, SomeOpt(<<112, 119>>)},
     host : {<<>>, <<104>>}, port : {NoneOpt, SomeOpt(80)},
     path : {<<>>, <<(<<112>>)>>}, data : {<<>>},
     query : {NoneOpt, SomeOpt(<<113>>)}, fragment : {NoneOpt, SomeOpt(<<65, 32>>)}]

\* scheme "tel"; scheme data "/p" or "m"
NonRelativeUrls ==
    [ok : {TRUE}, scheme : {<<116, 101, 108>>}, relative : {FALSE},
     username : {<<>>}, password : {NoneOpt}, host : {<<>>}, port : {NoneOpt},
     path : {<<>>}, data : {<<47, 112>>, <<109>>},
     query : {NoneOpt, SomeOpt(<<113>>)}, fragment : {NoneOpt, SomeOpt(<<65, 32>>)}]

ParseOutcomes == {ParseError} \cup RelativeUrls \cup NonRelativeUrls

\* the pieces a fixture line may declare, in the order they are written
FieldPieces ==
    << <<117, 58, 117>>,                              \* u:u
       <<112, 97, 115, 115, 58, 112, 119>>,           \* pass:pw
       <<104, 58, 104>>,                              \* h:h
       <<112, 111, 114, 116, 58, 48, 56, 48>>,        \* port:080
       <<112, 58, 47, 112>>,                          \* p:/p
       <<113, 58, 63, 113>>,                          \* q:?q
       <<102, 58, 35, 92, 117, 48, 48, 52, 49, 92, 115>> >>   \* f:#\u0041\s

\* none, s:http, s:tel
SchemePieces == { <<>>, <<115, 58, 104, 116, 116, 112>>, <<115, 58, 116, 101, 108>> }

\* the base inherited (an empty piece), or "http://b/"
BasePieces == { <<>>, <<104, 116, 116, 112, 58, 47, 47, 98, 47>> }

Keep(ps, keep) == SelectSeq(ps, LAMBDA x : x \in keep)

\* one line: [XFAIL ]i[ base][ s:..][ fields]; an inherited base is an
\* empty piece when pieces follow it, and no piece at all at the end of the line
FixtureLine(xfail, base, s, fields) ==
    LET rest == (IF s = <<>> THEN <<>> ELSE <<s>>) \o fields
    IN  Join((IF xfail THEN <<XFAIL>> ELSE <<>>)
               \o << <<105>> >>
               \o (IF base = <<>> /\ rest = <<>> THEN <<>> ELSE <<base>>)
               \o rest, SPACE)

\* lines on which parse_test_data does not panic
FixtureLines ==
    { FixtureLine(xfail, base, s, Keep(FieldPieces, keep)) :
        xfail \in BOOLEAN, base \in BasePieces, s \in SchemePieces,
        keep \in SUBSET {FieldPieces[i] : i \in 1..Len(FieldPieces)} }

\* lines on which parse_test_data panics
BadFixtureLines ==
    { <<97, 92, 120>>,                                    \* a\x
      <<97, 92>>,                                         \* a\
      <<92, 117, 48, 52>>,                                \* \u04
      <<92, 117, 68, 56, 48, 48>>,                        \* \uD800
      <<92, 117, 48, 48, 103, 49>>,                       \* \u00g1
      XFAIL,                                              \* XFAIL
      <<105, 32, 98, 32, 112, 111, 114, 116, 58, 54, 53, 53, 51, 54>>,  \* i b port:65536
      <<105, 32, 98, 32, 112, 111, 114, 116, 58>>,        \* i b port:
      <<105, 32, 98, 32, 112, 111, 114, 116, 58, 43, 49>>,  \* i b port:+1
      <<92, 117, 43, 48, 52, 49>>,                        \* \u+041
      <<105, 32, 98, 32, 122, 58, 49>>,                   \* i b z:1
      <<105, 32, 98, 32, 115>>                            \* i b s
    }

\* a comment, a blank line and a first test that names its base:
\* "http://a/ http://base/ s:http h:h p:/"
FixtureHead ==
    << <<35, 32, 99>>,
       <<>>,
       <<104, 116, 116, 112, 58, 47, 47, 97, 47, 32,
         104, 116, 116, 112, 58, 47, 47, 98, 97, 115, 101, 47, 32,
         115, 58, 104, 116, 116, 112, 32, 104, 58, 104, 32, 112, 58, 47>> >>

NoRun == [ran |-> FALSE, test |-> <<>>, url |-> ParseError, verdict |-> ""]

----------------------------------------------------------------------------
(* The inputs of the decode specification: up to MaxPieces pieces from a   *)
(* vocabulary, joined with '&'.                                            *)

DecodePieces ==
    { <<>>,                                                    \* (empty piece)
      <<EQUALS>>,                                              \* =
      <<97>>,                                                  \* a
      <<97, 61, 98, 61, 99>>,                                  \* a=b=c
      <<43, 37, 50, 66, 61, 37, 50, 48, 43>>,                  \* +%2B=%20+
      <<120, 61, 37, 69, 57, 37>>,                             \* x=%E9%
      <<107, 61, 195, 169>>,                                   \* k=(C3 A9)
      CHARSET_NAME \o <<61, 108, 49>>,                         \* _charset_=l1
      CHARSET_NAME \o <<61, 120, 120>>,                        \* _charset_=xx
      CHARSET_NAME \o <<61, 117, 116, 102, 37, 50, 68, 56>>,   \* _charset_=utf%2D8
      CHARSET_NAME \o <<61, 117, 116, 102, 45, 56>>,           \* _charset_=utf-8
      <<37, 53, 70>> \o Tail(CHARSET_NAME) \o <<61, 108, 49>>,  \* %5Fcharset_=l1
      <<37, 50, 98, 61, 32, 37, 52, 49>>                        \* %2b= %41
    }

DecodeInputs == { Join(ps, AMP) : ps \in SeqsUpTo(DecodePieces, MaxPieces) }

(* The inputs of the round-trip specification. *)

\* "", "foo", "bar", "=+"
RoundTripNames == { <<>>, <<102, 111, 111>>, <<98, 97, 114>>, <<61, 43>> }

\* "", "é&", "#", "% +2B"
RoundTripValues == { <<>>, <<233, 38>>, <<35>>, <<37, 32, 43, 50, 66>> }

RoundTripPairs == SeqsUpTo(RoundTripNames \X RoundTripValues, MaxPairs)

----------------------------------------------------------------------------
(* Actions. *)

FormIdle ==
    /\ api = "parse"
    /\ src_pairs = <<>>
    /\ input = <<>>
    /\ enc0 = UTF8
    /\ use0 = FALSE
    /\ encoding_override = UTF8
    /\ use_charset = FALSE
    /\ pieces = <<>>
    /\ pairs = <<>>
    /\ looked_up = <<>>
    /\ pc = "idle"
    /\ result = None
    /\ panicked = FALSE

FileIdle ==
    /\ fp_flavor = "posix"
    /\ fp_path = <<>>
    /\ fp_edited = FALSE
    /\ fp_initial = NotCalled
    /\ fp_result = NotCalled

HarnessIdle ==
    /\ h_fixture = <<>>
    /\ h_tests = <<>>
    /\ h_i = 1
    /\ h_pc = "idle"
    /\ h_last = NoRun

InitDecode ==
    /\ FileIdle
    /\ HarnessIdle
    /\ api \in {"parse", "parse_with_encoding"}
    /\ src_pairs = <<>>
    /\ input \in DecodeInputs
    /\ enc0 \in (IF api = "parse" THEN {UTF8} ELSE {UTF8, WINDOWS_1252})
    /\ use0 \in (IF api = "parse" THEN {FALSE} ELSE BOOLEAN)
    /\ encoding_override = enc0
    /\ use_charset = use0
    /\ pieces = <<>>
    /\ pairs = <<>>
    /\ looked_up = <<>>
    /\ pc = "call"
    /\ result = None
    /\ panicked = FALSE

InitRoundTrip ==
    /\ FileIdle
    /\ HarnessIdle
    /\ api = "parse"
    /\ src_pairs \in RoundTripPairs
    /\ input = <<>>
    /\ enc0 = UTF8
    /\ use0 = FALSE
    /\ encoding_override = enc0
    /\ use_charset = use0
    /\ pieces = <<>>
    /\ pairs = <<>>
    /\ looked_up = <<>>
    /\ pc = "serialize"
    /\ result = None
    /\ panicked = FALSE

\* let encoded = serialize_owned(pairs.as_slice());
Serialize ==
    /\ pc = "serialize"
    /\ input' = serialize_owned(src_pairs)
    /\ pc' = "call"
    /\ UNCHANGED <<api, src_pairs, enc0, use0, encoding_override, use_charset,
                   pieces, pairs, looked_up, result, panicked>>
    /\ UNCHANGED <<file_vars, harness_vars>>

\* entry of parse_internal: the empty vector and the split iterator
ParseEnter ==
    /\ pc = "call"
    /\ pairs' = <<>>
    /\ pieces' = split(input, AMP)
    /\ pc' = "loop"
    /\ UNCHANGED <<api, src_pairs, input, enc0, use0, encoding_override, use_charset,
                   looked_up, result, panicked>>
    /\ UNCHANGED <<file_vars, harness_vars>>

\* one iteration of `for piece in input.split(..)`
LoopPiece ==
    /\ pc = "loop"
    /\ pieces # <<>>
    /\ LET piece == Head(pieces)
           nv == name_value(piece)
           name == replace_plus(nv[1])
           value == replace_plus(nv[2])
           charset == use_charset /\ name = CHARSET_NAME
           found == lookup(lookup_label(value))
       IN  /\ pieces' = Tail(pieces)
           /\ IF piece = <<>>
              THEN UNCHANGED <<pairs, use_charset, encoding_override, looked_up>>
              ELSE /\ pairs' = Append(pairs, <<name, value>>)
                   /\ use_charset' = IF charset THEN FALSE ELSE use_charset
                   /\ encoding_override' =
                          IF charset /\ found # NoEncoding THEN found
                          ELSE encoding_override
                   /\ looked_up' =
                          IF charset
                          THEN Append(looked_up,
                                      [piece |-> piece,
                                       label |-> lookup_label(value),
                                       found |-> found])
                          ELSE looked_up
    /\ UNCHANGED <<api, src_pairs, input, enc0, use0, pc, result, panicked>>
    /\ UNCHANGED <<file_vars, harness_vars>>

\* after the loop: the early return, the decoding pass, and parse()'s unwrap
Finish ==
    /\ pc = "loop"
    /\ pieces = <<>>
    /\ result' = IF decode_fails(encoding_override, input) THEN None
                 ELSE Some(decode_pairs(encoding_override, pairs))
    /\ panicked' = (api = "parse" /\ ~result'.some)
    /\ pc' = "done"
    /\ UNCHANGED <<api, src_pairs, input, enc0, use0, encoding_override, use_charset,
                   pieces, pairs, looked_up>>
    /\ UNCHANGED <<file_vars, harness_vars>>

NextDecode == ParseEnter \/ LoopPiece \/ Finish

NextRoundTrip == Serialize \/ ParseEnter \/ LoopPiece \/ Finish

SpecDecode == InitDecode /\ [][NextDecode]_vars

SpecRoundTrip == InitRoundTrip /\ [][NextRoundTrip]_vars

----------------------------------------------------------------------------
(* The file_paths test: a file Url, assignments to its path segments, and  *)
(* conversions to a native path.                                           *)

InitFilePaths ==
    /\ FormIdle
    /\ HarnessIdle
    /\ fp_flavor \in {"posix", "windows"}
    /\ fp_path = (IF fp_flavor = "posix" THEN PosixUrlPath ELSE WindowsUrlPath)
    /\ fp_edited = FALSE
    /\ fp_initial = NotCalled
    /\ fp_result = NotCalled

\* url.path_mut().unwrap()[i] = segment
SetSegment ==
    /\ \E i \in 1..Len(fp_path), segment \in Segments :
          fp_path' = [fp_path EXCEPT ![i] = segment]
    /\ fp_edited' = TRUE
    /\ fp_result' = NotCalled
    /\ UNCHANGED <<fp_flavor, fp_initial>>
    /\ UNCHANGED <<form_vars, harness_vars>>

\* url.to_file_path::<Path>()
ToFilePath ==
    /\ ~fp_result.called
    /\ fp_result' = to_file_path(fp_flavor, fp_path)
    /\ fp_initial' = (IF fp_edited THEN fp_initial ELSE fp_result')
    /\ UNCHANGED <<fp_flavor, fp_path, fp_edited>>
    /\ UNCHANGED <<form_vars, harness_vars>>

NextFilePaths == SetSegment \/ ToFilePath

SpecFilePaths == InitFilePaths /\ [][NextFilePaths]_vars

----------------------------------------------------------------------------
(* The url_parsing test: the fixture is read, then run test by test until  *)
(* one panics.                                                             *)

InitHarness ==
    /\ FormIdle
    /\ FileIdle
    /\ h_fixture \in { FixtureHead \o <<line>> : line \in FixtureLines \cup BadFixtureLines }
    /\ h_tests = <<>>
    /\ h_i = 1
    /\ h_pc = "read"
    /\ h_last = NoRun

\* parse_test_data(include_str!("urltestdata.txt"))
ReadFixture ==
    /\ h_pc = "read"
    /\ LET tests == parse_test_data(h_fixture)
       IN  /\ h_tests' = tests.val
           /\ h_pc' = IF tests.panic THEN "panicked" ELSE "loop"
    /\ UNCHANGED <<h_fixture, h_i, h_last>>
    /\ UNCHANGED <<form_vars, file_vars>>

\* one iteration of the for loop: the base and the input are parsed, the
\* outcome is compared with the test
RunTest ==
    /\ h_pc = "loop"
    /\ h_i <= Len(h_tests)
    /\ \E base_ok \in BOOLEAN, url \in ParseOutcomes :
          LET verdict == run_test(h_tests[h_i], base_ok, url)
          IN  /\ h_last' = [ran |-> TRUE, test |-> h_tests[h_i],
                            url |-> IF base_ok THEN url ELSE ParseError,
                            verdict |-> verdict]
              /\ h_pc' = IF is_panic(verdict) THEN "panicked" ELSE "loop"
              /\ h_i' = IF is_panic(verdict) THEN h_i ELSE h_i + 1
    /\ UNCHANGED <<h_fixture, h_tests>>
    /\ UNCHANGED <<form_vars, file_vars>>

\* the loop ran out of tests: the test function returns
HarnessDone ==
    /\ h_pc = "loop"
    /\ h_i > Len(h_tests)
    /\ h_pc' = "passed"
    /\ UNCHANGED <<h_fixture, h_tests, h_i, h_last>>
    /\ UNCHANGED <<form_vars, file_vars>>

NextHarness == ReadFixture \/ RunTest \/ HarnessDone

SpecHarness == InitHarness /\ [][NextHarness]_vars

----------------------------------------------------------------------------
(* What the properties below read off an input, stated on byte positions   *)
(* and independently of the operators above.                               *)

Count(bytes, b) == Cardinality({i \in 1..Len(bytes) : bytes[i] = b})

\* the positions at which a non-empty '&'-separated piece starts, ascending
PieceStarts(bytes) ==
    SelectSeq([i \in 1..Len(bytes) |-> i],
              LAMBDA i : bytes[i] # 38 /\ (i = 1 \/ bytes[i - 1] = 38))

PieceAt(bytes, s) ==
    LET e == CHOOSE j \in s..Len(bytes) :
                 /\ bytes[j] # 38
                 /\ (j = Len(bytes) \/ bytes[j + 1] = 38)
                 /\ \A i \in s..j : bytes[i] # 38
    IN  SubSeq(bytes, s, e)

\* the k-th non-empty piece of the input
KthPiece(bytes, k) == PieceAt(bytes, PieceStarts(bytes)[k])

NumPieces(bytes) == Len(PieceStarts(bytes))

FirstEquals(piece) ==
    IF \E i \in 1..Len(piece) : piece[i] = EQUALS
    THEN CHOOSE i \in 1..Len(piece) :
             piece[i] = EQUALS /\ \A j \in 1..(i - 1) : piece[j] # EQUALS
    ELSE Len(piece) + 1

RawName(piece) == SubSeq(piece, 1, FirstEquals(piece) - 1)

RawValue(piece) == SubSeq(piece, FirstEquals(piece) + 1, Len(piece))

PlusAsSpace(bytes) == [i \in 1..Len(bytes) |-> IF bytes[i] = 43 THEN 32 ELSE bytes[i]]

\* how many times the escape %hl is written in bytes, in either letter case
Escapes(bytes, h, ls) ==
    Cardinality({i \in 1..(Len(bytes) - 2) :
                    bytes[i] = 37 /\ bytes[i + 1] = h /\ bytes[i + 2] \in ls})

HasNonAscii(bytes) == \E i \in 1..Len(bytes) : bytes[i] >= 128

\* foo=%C3%A9%26&bar=&foo=%23
TestEncoded ==
    <<102, 111, 111, 61, 37, 67, 51, 37, 65, 57, 37, 50, 54, 38,
      98, 97, 114, 61, 38, 102, 111, 111, 61, 37, 50, 51>>

\* [("foo", "é&"), ("bar", ""), ("foo", "#")]
TestPairs ==
    << <<(<<102, 111, 111>>), (<<233, 38>>)>>,
       <<(<<98, 97, 114>>), (<<>>)>>,
       <<(<<102, 111, 111>>), (<<35>>)>> >>

----------------------------------------------------------------------------
(* Properties of the round trip (SpecRoundTrip).                           *)

\* C1: parse(serialize_owned(pairs)) returns exactly the pairs it was given,
\* in the same order and with the same length, and does not panic.
C1_RoundTrip ==
    pc = "done" => /\ result.some
                   /\ result.pairs = src_pairs
                   /\ ~panicked

\* the test's literal: the three pairs, their encoding, and the list back
C1_Witness ==
    /\ pc = "done"
    /\ src_pairs = TestPairs
    /\ input = TestEncoded
    /\ result = Some(TestPairs)

\* C7: the encoding of n pairs holds exactly n literal '=' and n-1 literal
\* '&' (none leading or trailing), the k-th '&'-separated piece being the
\* encoded name, '=', the encoded value of the k-th pair; no pairs give the
\* empty string.
C7_SerializeShape ==
    pc # "serialize" =>
        LET n == Len(src_pairs)
        IN  /\ (n = 0 => input = <<>>)
            /\ (n >= 1 =>
                  /\ Count(input, 61) = n
                  /\ Count(input, 38) = n - 1
                  /\ NumPieces(input) = n
                  /\ \A k \in 1..n :
                        LET piece == KthPiece(input, k)
                        IN  /\ RawName(piece) = byte_serialize(src_pairs[k][1])
                            /\ RawValue(piece) = byte_serialize(src_pairs[k][2])
                            /\ FirstEquals(piece) <= Len(piece))

\* three pairs, the first ("", ""), encoded as "=&..."
C7_Witness ==
    /\ pc = "call"
    /\ Len(src_pairs) = 3
    /\ src_pairs[1] = <<(<<>>), (<<>>)>>
    /\ src_pairs[3][2] = <<233, 38>>
    /\ input[1] = 61
    /\ input[2] = 38

----------------------------------------------------------------------------
(* Properties of the decode (SpecDecode).                                  *)

\* C2: parse_internal returns None exactly when the encoding active after
\* the loop is not UTF-8 and the input holds a non-ASCII byte; parse() never
\* gets None and its unwrap never panics.
C2_NoneIff ==
    pc = "done" =>
        /\ ~result.some <=> (encoding_override # "utf-8" /\ HasNonAscii(input))
        /\ (api = "parse" => result.some /\ ~panicked)

\* a call that starts in UTF-8, adopts windows-1252 from _charset_ and is
\* refused because of a raw non-ASCII byte
C2_Witness ==
    /\ pc = "done"
    /\ enc0 = "utf-8"
    /\ encoding_override = "windows-1252"
    /\ HasNonAscii(input)
    /\ ~result.some

\* the encoding the first _charset_ piece with a resolvable label names, if any
ChosenByCharset(bytes) ==
    LET hits == {k \in 1..NumPieces(bytes) :
                    /\ PlusAsSpace(RawName(KthPiece(bytes, k))) = CHARSET_NAME
                    /\ lookup(PlusAsSpace(RawValue(KthPiece(bytes, k)))) # NoEncoding}
    IN  IF hits = {} THEN NoEncoding
        ELSE lookup(PlusAsSpace(RawValue(KthPiece(bytes,
                 CHOOSE k \in hits : \A j \in hits : k <= j))))

\* C3: with use_charset set, the flag is cleared by the first _charset_ piece
\* whose label resolves, and that encoding is the active one; a _charset_
\* piece whose label does not resolve leaves the flag set, so a later
\* resolvable one is still adopted.
C3_ClearedOnSuccess ==
    (pc = "done" /\ use0) =>
        LET chosen == ChosenByCharset(input)
        IN  /\ encoding_override = (IF chosen = NoEncoding THEN enc0 ELSE chosen)
            /\ use_charset = (chosen = NoEncoding)

\* C4 as stated: the label handed to the lookup is the percent-decoded value
\* of the _charset_ piece, so an escaped label resolves like the plain one.
C4_LabelPercentDecoded ==
    \A i \in 1..Len(looked_up) :
        LET label == percent_decode(PlusAsSpace(RawValue(looked_up[i].piece)))
        IN  /\ looked_up[i].label = label
            /\ looked_up[i].found = lookup(label)

\* C4 amended: the label handed to the lookup is the value of the _charset_
\* piece with '+' turned into a space and its percent-escapes left as
\* written; a label written with an escape does not resolve.
C4_LabelNotPercentDecoded ==
    \A i \in 1..Len(looked_up) :
        LET label == PlusAsSpace(RawValue(looked_up[i].piece))
        IN  /\ looked_up[i].label = label
            /\ looked_up[i].found = lookup(label)
            /\ (Count(label, 37) > 0 => looked_up[i].found = NoEncoding)

\* _charset_=utf%2D8 was looked up and the windows-1252 override stayed
C4_Witness ==
    /\ pc = "done"
    /\ enc0 = "windows-1252"
    /\ encoding_override = "windows-1252"
    /\ Len(looked_up) = 1
    /\ looked_up[1].label = <<117, 116, 102, 37, 50, 68, 56>>
    /\ looked_up[1].found = NoEncoding
    /\ lookup(percent_decode(looked_up[1].label)) = "utf-8"

\* C5: one pair per non-empty '&'-separated piece, in input order; the name
\* is what precedes the first '=', the value all that follows it; a piece
\* without '=' has an empty value.
C5_OnePairPerPiece ==
    pc = "done" =>
        /\ Len(pairs) = NumPieces(input)
        /\ (result.some => Len(result.pairs) = NumPieces(input))
        /\ \A k \in 1..Len(pairs) :
              LET piece == KthPiece(input, k)
              IN  /\ pairs[k][1] = PlusAsSpace(RawName(piece))
                  /\ pairs[k][2] = PlusAsSpace(RawValue(piece))
                  /\ (Count(piece, 61) = 0 =>
                        pairs[k][1] = PlusAsSpace(piece) /\ pairs[k][2] = <<>>)

\* "&=&a=b=c" gives [("", ""), ("a", "b=c")]
C5_Witness ==
    /\ pc = "done"
    /\ input = <<38, 61, 38, 97, 61, 98, 61, 99>>
    /\ result = Some(<< <<(<<>>), (<<>>)>>, <<(<<97>>), (<<98, 61, 99>>)>> >>)

\* C6: in the decoded text a '+' comes from the escape %2B only and a space
\* from a literal '+', a literal space or the escape %20.
PlusRule(raw, text) ==
    /\ Count(text, 43) = Escapes(raw, 50, {66, 98})
    /\ Count(text, 32) = Count(raw, 43) + Count(raw, 32) + Escapes(raw, 50, {48})

C6_PlusBeforePercentDecode ==
    (pc = "done" /\ result.some) =>
        \A k \in 1..Len(result.pairs) :
            /\ PlusRule(RawName(KthPiece(input, k)), result.pairs[k][1])
            /\ PlusRule(RawValue(KthPiece(input, k)), result.pairs[k][2])

\* "+%2B=%20+" gives (" +", "  ")
C6_Witness ==
    /\ pc = "done"
    /\ input = <<43, 37, 50, 66, 61, 37, 50, 48, 43>>
    /\ result = Some(<< <<(<<32, 43>>), (<<32, 32>>)>> >>)

----------------------------------------------------------------------------
(* Properties of to_file_path (SpecFilePaths).                             *)

Decoded(segment) == percent_decode(utf8_encode(segment))

HasNulSegment(path) ==
    \E i \in 1..Len(path) : \E j \in 1..Len(Decoded(path[i])) : Decoded(path[i])[j] = 0

\* the shape the flavor asks of the Url: a drive letter first on Windows
ShapeValid(flavor, path) ==
    flavor = "windows" =>
        /\ Len(path[1]) = 2
        /\ path[1][2] = 58
        /\ (path[1][1] \in 65..90 \/ path[1][1] \in 97..122)

\* the native path holding every decoded segment unchanged
RawNative(flavor, path) ==
    IF flavor = "posix"
    THEN Flatten([i \in 1..Len(path) |-> <<47>> \o Decoded(path[i])])
    ELSE utf8_encode(path[1])
             \o Flatten([i \in 1..(Len(path) - 1) |-> <<92>> \o Decoded(path[i + 1])])

\* bytes that are text: decoding them lossily and encoding again changes nothing
IsText(bytes) == utf8_encode(utf8_decode_lossy(bytes)) = bytes

\* C8 as stated: with a valid shape and no NUL in a decoded segment,
\* to_file_path succeeds for either flavor and returns the decoded bytes of
\* every segment unchanged, valid text or not.
C8_RawBytesBothFlavors ==
    (fp_result.called /\ ShapeValid(fp_flavor, fp_path) /\ ~HasNulSegment(fp_path)) =>
        fp_result = Ok(RawNative(fp_flavor, fp_path))

\* C8 amended: that holds for the POSIX flavor; for the Windows flavor the
\* conversion succeeds, with the same bytes, exactly when the decoded bytes
\* are valid UTF-8 text, and fails otherwise.
C8_RawBytesPosixTextWindows ==
    (fp_result.called /\ ShapeValid(fp_flavor, fp_path) /\ ~HasNulSegment(fp_path)) =>
        IF fp_flavor = "posix" \/ IsText(RawNative(fp_flavor, fp_path))
        THEN fp_result = Ok(RawNative(fp_flavor, fp_path))
        ELSE ~fp_result.ok

\* ["foo", "ba%80r"] converts to the bytes /foo/ba\x80r
C8_Witness ==
    /\ fp_flavor = "posix"
    /\ fp_edited
    /\ fp_path = << <<102, 111, 111>>, <<98, 97, 37, 56, 48, 114>> >>
    /\ fp_result = Ok(<<47, 102, 111, 111, 47, 98, 97, 128, 114>>)

\* C9: to_file_path fails whenever a decoded segment holds NUL, stored
\* literally or as %00, for both flavors; the Url as constructed, before
\* any segment is replaced, converts.
C9_NulRejected ==
    /\ (fp_result.called /\ HasNulSegment(fp_path)) => ~fp_result.ok
    /\ (fp_result.called /\ ~fp_edited) => fp_result.ok
    /\ fp_edited => (fp_initial.called => fp_initial.ok)

\* the Url converted before "ba%00r" was assigned, and does not after;
\* on Windows likewise with "ba\0r"
C9_Witness ==
    /\ fp_initial.ok
    /\ fp_result.called
    /\ ~fp_result.ok
    /\ \/ /\ fp_flavor = "posix"
          /\ fp_path = << <<102, 111, 111>>, <<98, 97, 37, 48, 48, 114>> >>
       \/ /\ fp_flavor = "windows"
          /\ fp_path = << <<67, 58>>, <<102, 111, 111>>, <<98, 97, 0, 114>> >>

----------------------------------------------------------------------------
(* Properties of the url_parsing harness (SpecHarness).                    *)

\* what the Url gives for the eight fields a line declares
ActualFields(url) ==
    [scheme |-> <<url.scheme>>,
     username |-> IF url.relative THEN url.username ELSE <<>>,
     password |-> IF url.relative THEN url.password ELSE <<>>,
     host |-> IF url.relative THEN url.host ELSE <<>>,
     port |-> IF url.relative THEN url.port ELSE <<>>,
     path |-> IF url.relative THEN <<(<<47>> \o Join(url.path, 47))>> ELSE <<url.data>>,
     query |-> IF url.query = <<>> THEN <<>> ELSE <<(<<63>> \o url.query[1])>>,
     fragment |-> IF url.fragment = <<>> THEN <<>> ELSE <<(<<35>> \o url.fragment[1])>>]

DeclaredFields(test) ==
    [scheme |-> test.scheme, username |-> test.username, password |-> test.password,
     host |-> test.host, port |-> test.port, path |-> test.path,
     query |-> test.query, fragment |-> test.fragment]

\* the parse outcome is what the line declares
Agrees(test, url) ==
    IF test.scheme = <<>> THEN ~url.ok
    ELSE url.ok /\ ActualFields(url) = DeclaredFields(test)

Panicked == h_pc = "panicked"

\* C10: an XFAIL line never passes silently: when the outcome agrees with
\* what the line declares the harness panics, and it moves on without a
\* panic only when the outcome deviates.
C10_XfailNeverSilent ==
    (h_last.ran /\ h_last.test.expected_failure /\ Agrees(h_last.test, h_last.url)) =>
        Panicked

\* the part of C10 the harness does keep: an XFAIL line that declares a
\* scheme and is met field for field makes the harness panic
C10_XfailWithSchemeNeverSilent ==
    (/\ h_last.ran
     /\ h_last.test.expected_failure
     /\ h_last.test.scheme # <<>>
     /\ Agrees(h_last.test, h_last.url)) => h_last.verdict = "panic: Unexpected success"

\* an XFAIL line declaring all eight fields, every one of them met
C10_SchemeWitness ==
    /\ h_last.ran
    /\ h_last.test.expected_failure
    /\ h_last.test.scheme = <<(<<104, 116, 116, 112>>)>>
    /\ h_last.test.port = <<80>>
    /\ h_last.test.fragment = <<(<<35, 65, 32>>)>>
    /\ h_last.test.password = <<(<<112, 119>>)>>
    /\ Agrees(h_last.test, h_last.url)
    /\ Panicked

====
